---- MODULE Spec2Model ----
(***************************************************************************)
(* Road Watcher: the detection loop of detector.py (VehicleDetector.run)   *)
(* and the alert state machine of led_controller.py (LEDController).       *)
(*                                                                         *)
(* Time advances in ticks of 0.1 s (action Tick).  The code reads the      *)
(* clock only to form differences (time.time() - start_time,               *)
(* current_time - last_detection_time), so the model keeps each difference *)
(* as a counter that Tick increments, saturating just above the value it   *)
(* is compared with; a sleep or a join timeout is a counter that Tick      *)
(* decrements.  time.sleep and Thread.join(timeout) wait AT LEAST the      *)
(* requested time: Tick is always enabled, so a sleeper may resume late    *)
(* and a ready thread may be scheduled late.                               *)
(*                                                                         *)
(* Two programs use the controller: the detector (detector.py main) and    *)
(* the controller's own test client (led_controller.py __main__), modelled *)
(* as a caller that issues alert / stop_alert / cleanup in any order.      *)
(* StartupSpec is the construction of the detector from its configuration *)
(* file; ScenarioSpec is one alert() left undisturbed, with nothing late.  *)
(*                                                                         *)
(* Variables marked "history" are not program state: they record what has  *)
(* happened so that properties over the past can be stated.  The fields    *)
(* cycles and flagged of a thread record are history as well: the on/off   *)
(* cycles blink() has completed, and whether the flag was already set when *)
(* the sleep in progress began.                                            *)
(***************************************************************************)
EXTENDS Integers, Sequences, FiniteSets, TLC

(* ---------------------------- bounds ---------------------------------- *)
MaxAlerts == 2          \* alert threads started in one run
MaxContours == 1        \* foreground regions in one frame

(* ----------------------- program constants ---------------------------- *)
SolidPoll == 1          \* time.sleep(0.1) in the solid loop
BlinkInterval == 2      \* blink(times=1, interval=0.2)
JoinTimeout == 10       \* join(timeout=1.0)
WarmUp == 20            \* time.sleep(2) after opening the camera
LoopDelay == 0          \* time.sleep(0.033): below one tick, rounds down
MinContourArea == 5000  \* default min_contour_area
DefaultCooldown == 20   \* default detection_cooldown, 2.0 s
DefaultAlert == 50      \* default alert_duration, 5.0 s
LedPin == 17            \* default led_pin
BgHistory == 500        \* default bg_history
VarThreshold == 50      \* default var_threshold

HIGH == "HIGH"
LOW == "LOW"

StartClocks == {0, 1000}            \* readings of time.time() at start-up
\* (detection_cooldown, alert_duration, save_detections) of the runs tried
Setups == {<<0, 5, TRUE>>, <<3, 2, FALSE>>, <<WarmUp + 2, 2, FALSE>>}
Durations == {1, 3}                 \* durations the test client passes
ScenarioDurations == {6, 10, 14}    \* durations of a single undisturbed alert
Patterns == {"solid", "blink"}
Areas == {4000, 5000, 6000}         \* contour areas around the threshold

Min(a, b) == IF a < b THEN a ELSE b
Max(a, b) == IF a > b THEN a ELSE b

VARIABLES
  prog,                 \* which program runs: "detector" or "led_test"
  config_file,          \* content of the configuration file still to load
  config,               \* VehicleDetector.config
  camera,               \* "none", "unopened", "open", "released"
  cameraReleases,       \* number of camera.release() calls
  pc,                   \* position of the main thread
  ret,                  \* return positions of the calls in progress
  arg,                  \* (duration, pattern) of the alert() in progress
  timer,                \* remaining time of the main thread's sleep
  frame,                \* frame of the current iteration
  contours,             \* significant contours of the current frame
  exceeded,             \* history: some frame read had a region above the threshold
  delayed,              \* history: no camera read since the last loop delay
  since_detection,      \* time.time() - last_detection_time, saturating
  detection_log,        \* VehicleDetector.detection_log
  sinceAccept,          \* history: time since the last accepted detection
  acceptGaps,           \* history: sinceAccept at each accepted detection
  exc,                  \* exception in flight: "none", "KeyboardInterrupt", "error"
  interrupted,          \* a KeyboardInterrupt has been delivered (one at most)
  led,                  \* level last written to the pin
  flag,                 \* LEDController._stop_alert
  sinceFlag,            \* history: time since the flag was set, saturating
  threads,              \* every alert thread ever started, in start order
  alert_thread,         \* LEDController._alert_thread (0 = None)
  joinWaited,           \* time spent in the join in progress, saturating
  gpioReleases          \* number of gpio.cleanup() calls

vars == <<prog, config_file, config, camera, cameraReleases, pc, ret, arg,
          timer, frame, contours, exceeded, delayed, since_detection,
          detection_log, sinceAccept, acceptGaps, exc, interrupted, led,
          flag, sinceFlag, threads, alert_thread, joinWaited, gpioReleases>>

detVars == <<config_file, config, camera, cameraReleases, frame, contours,
             exceeded, delayed, detection_log, acceptGaps, exc, interrupted>>

clockVars == <<since_detection, sinceAccept>>

ledVars == <<led, flag, sinceFlag, threads, alert_thread, joinWaited,
            gpioReleases>>

callVars == <<pc, ret, arg, timer>>

(* ------------------------------ frames -------------------------------- *)
NoFrame == [valid |-> FALSE, areas |-> <<>>]

Frames ==
  {NoFrame} \cup
  {[valid |-> TRUE, areas |-> s] :
      s \in UNION {[1..n -> Areas] : n \in 0..MaxContours}}

\* a thread whose _run_alert has returned
Ended == [pc |-> "done", pattern |-> "solid", duration |-> 0,
          elapsed |-> 0, timer |-> 0, cycles |-> 0, flagged |-> FALSE]

NoArg == [duration |-> 0, pattern |-> "solid"]

Never == 0 - 1

(* --------------------------- initial state ---------------------------- *)
default_config ==
  [led_pin |-> LedPin,
   min_contour_area |-> MinContourArea,
   detection_cooldown |-> DefaultCooldown,
   alert_duration |-> DefaultAlert,
   bg_history |-> BgHistory,
   var_threshold |-> VarThreshold,
   save_detections |-> FALSE]

Options == DOMAIN default_config

\* the values a site's config.json gives to the options it specifies
site_config ==
  [led_pin |-> LedPin + 10,
   min_contour_area |-> MinContourArea - 1000,
   detection_cooldown |-> 3,
   alert_duration |-> 2,
   bg_history |-> BgHistory - 200,
   var_threshold |-> VarThreshold - 25,
   save_detections |-> TRUE]

\* config.json: absent, not JSON, or a JSON object giving some options
ConfigFiles ==
  {[state |-> st, options |-> <<>>] : st \in {"missing", "malformed"}} \cup
  {[state |-> "object", options |-> [o \in D |-> site_config[o]]] :
      D \in SUBSET Options}

\* no file left to load: the detector has been constructed
Loaded == [state |-> "loaded", options |-> <<>>]

Configs ==
  {[default_config EXCEPT !.detection_cooldown = c[1],
                          !.alert_duration = c[2],
                          !.save_detections = c[3]] : c \in Setups}

LEDControllerInit ==
  /\ led = LOW
  /\ flag = FALSE
  /\ sinceFlag = 0
  /\ threads = <<>>
  /\ alert_thread = 0
  /\ joinWaited = 0
  /\ gpioReleases = 0

VehicleDetectorInit ==
  /\ camera = "none"
  /\ cameraReleases = 0
  /\ frame = NoFrame
  /\ contours = <<>>
  /\ exceeded = FALSE
  /\ delayed = TRUE
  /\ detection_log = <<>>
  /\ sinceAccept = Never
  /\ acceptGaps = <<>>
  /\ exc = "none"
  /\ interrupted = FALSE

\* detector.py main(): VehicleDetector() then run()
Init ==
  /\ prog = "detector"
  /\ pc = "start_camera"
  /\ config \in Configs
  \* self.last_detection_time = 0: the first difference current_time - 0
  \* is the clock reading itself
  /\ \E clock \in StartClocks :
        since_detection = Min(clock - 0, config.detection_cooldown)
  /\ ret = <<>>
  /\ arg = NoArg
  /\ timer = 0
  /\ config_file = Loaded
  /\ VehicleDetectorInit
  /\ LEDControllerInit

\* led_controller.py __main__: LEDController(pin=17), then calls on it
LedInit ==
  /\ prog = "led_test"
  /\ pc = "client"
  /\ config = default_config
  /\ since_detection = 0
  /\ ret = <<>>
  /\ arg = NoArg
  /\ timer = 0
  /\ config_file = Loaded
  /\ VehicleDetectorInit
  /\ LEDControllerInit

(* ------------------------------ helpers ------------------------------- *)
ThreadIds == 1..Len(threads)

is_alive(i) == threads[i].pc # "done"

Alive == {i \in ThreadIds : is_alive(i)}

output(level) == led' = level

Return ==
  /\ pc' = Head(ret)
  /\ ret' = Tail(ret)

Call(entry, back) ==
  /\ pc' = entry
  /\ ret' = <<back>> \o ret

join_without_timeout(i) == ~is_alive(i)

\* Thread.join(timeout=1.0) returns when the thread has ended or the
\* timeout has passed.
join_returns(i) == ~is_alive(i) \/ joinWaited >= JoinTimeout

cooldown_check_dropped == FALSE

\* current_time - self.last_detection_time < detection_cooldown
cooldown_active == since_detection < config.detection_cooldown

\* some region of the frame has cv2.contourArea(c) > min_contour_area
above_threshold(f) ==
  \E k \in 1..Len(f.areas) : f.areas[k] > config.min_contour_area

significant_contours_inclusive(f) ==
  SelectSeq(f.areas, LAMBDA a : a >= config.min_contour_area)

significant_contours(f) ==
  SelectSeq(f.areas, LAMBDA a : a > config.min_contour_area)

in_alert_window_unbounded(t) == TRUE

\* time.time() - start_time < duration
in_alert_window(t) == t.elapsed < t.duration

(* ----------------------- time.sleep / the clock ----------------------- *)
Running(t) == t.pc \notin {"start", "done"}

Age(t) ==
  [t EXCEPT !.elapsed = IF Running(t)
                          THEN Min(t.elapsed + 1, t.duration + 1)
                          ELSE t.elapsed,
            !.timer = Max(t.timer - 1, 0)]

Joining == pc \in {"alert_joining", "cleanup_joining"}

Tick ==
  /\ threads' = [i \in ThreadIds |-> Age(threads[i])]
  /\ timer' = Max(timer - 1, 0)
  /\ joinWaited' = IF Joining THEN Min(joinWaited + 1, JoinTimeout)
                              ELSE joinWaited
  /\ sinceFlag' = IF flag THEN Min(sinceFlag + 1, BlinkInterval + 1) ELSE 0
  /\ since_detection' = IF prog = "detector"
                          THEN Min(since_detection + 1,
                                   config.detection_cooldown)
                          ELSE since_detection
  /\ sinceAccept' = IF sinceAccept = Never THEN Never
                    ELSE Min(sinceAccept + 1, config.detection_cooldown)
  /\ UNCHANGED <<prog, detVars, pc, ret, arg, led, flag, alert_thread,
                 gpioReleases>>

(* ------------------- LEDController.alert (caller side) ---------------- *)
AlertSet ==
  /\ pc = "alert_set"
  /\ flag' = TRUE
  /\ sinceFlag' = IF flag THEN sinceFlag ELSE 0
  /\ pc' = "alert_join"
  /\ UNCHANGED <<prog, detVars, clockVars, ret, arg, timer, led, threads,
                 alert_thread, joinWaited, gpioReleases>>

AlertJoin ==
  /\ pc = "alert_join"
  /\ pc' = IF alert_thread # 0 /\ is_alive(alert_thread)
             THEN "alert_joining" ELSE "alert_clear"
  /\ joinWaited' = 0
  /\ UNCHANGED <<prog, detVars, clockVars, sinceFlag,
                 ret, arg, timer, led, flag,
                 threads, alert_thread, gpioReleases>>

AlertJoined ==
  /\ pc = "alert_joining"
  /\ join_returns(alert_thread)
  /\ pc' = "alert_clear"
  /\ joinWaited' = 0
  /\ UNCHANGED <<prog, detVars, clockVars, sinceFlag,
                 ret, arg, timer, led, flag,
                 threads, alert_thread, gpioReleases>>

AlertClear_missing ==
  /\ pc = "alert_clear"
  /\ pc' = "alert_start"
  /\ UNCHANGED <<prog, detVars, clockVars, ret, arg, timer, ledVars>>

AlertClear ==
  /\ pc = "alert_clear"
  /\ flag' = FALSE
  /\ sinceFlag' = 0
  /\ pc' = "alert_start"
  /\ UNCHANGED <<prog, detVars, clockVars, ret, arg, timer, led, threads,
                 alert_thread, joinWaited, gpioReleases>>

AlertStart ==
  /\ pc = "alert_start"
  /\ Len(threads) < MaxAlerts
  /\ threads' = Append(threads, [pc |-> "start",
                                 pattern |-> arg.pattern,
                                 duration |-> arg.duration,
                                 elapsed |-> 0,
                                 timer |-> 0,
                                 cycles |-> 0,
                                 flagged |-> FALSE])
  /\ alert_thread' = Len(threads) + 1
  /\ Return
  /\ arg' = NoArg
  /\ UNCHANGED <<prog, detVars, clockVars, sinceFlag,
                 timer, led, flag, joinWaited,
                 gpioReleases>>

(* ---------------------- LEDController.stop_alert ---------------------- *)
StopSet ==
  /\ pc = "stop_set"
  /\ flag' = TRUE
  /\ sinceFlag' = IF flag THEN sinceFlag ELSE 0
  /\ pc' = "stop_off"
  /\ UNCHANGED <<prog, detVars, clockVars, ret, arg, timer, led, threads,
                 alert_thread, joinWaited, gpioReleases>>

StopOff ==
  /\ pc = "stop_off"
  /\ output(LOW)
  /\ Return
  /\ UNCHANGED <<prog, detVars, clockVars, sinceFlag,
                 arg, timer, flag, threads,
                 alert_thread, joinWaited, gpioReleases>>

(* ------------------------ LEDController.cleanup ----------------------- *)
CleanupJoin ==
  /\ pc = "cleanup_join"
  /\ pc' = IF alert_thread # 0 THEN "cleanup_joining" ELSE "cleanup_gpio"
  /\ joinWaited' = 0
  /\ UNCHANGED <<prog, detVars, clockVars, sinceFlag,
                 ret, arg, timer, led, flag,
                 threads, alert_thread, gpioReleases>>

CleanupJoined ==
  /\ pc = "cleanup_joining"
  /\ join_returns(alert_thread)
  /\ pc' = "cleanup_gpio"
  /\ joinWaited' = 0
  /\ UNCHANGED <<prog, detVars, clockVars, sinceFlag,
                 ret, arg, timer, led, flag,
                 threads, alert_thread, gpioReleases>>

GpioCleanup ==
  /\ pc = "cleanup_gpio"
  /\ gpioReleases' = gpioReleases + 1
  /\ Return
  /\ UNCHANGED <<prog, detVars, clockVars, sinceFlag,
                 arg, timer, led, flag, threads,
                 alert_thread, joinWaited>>

(* ------------------ _run_alert (the alert thread) --------------------- *)
Step(i, t) ==
  /\ threads' = [threads EXCEPT ![i] = t]
  /\ UNCHANGED <<prog, detVars, clockVars, sinceFlag,
                 callVars, flag, alert_thread,
                 joinWaited, gpioReleases>>

\* start_time = time.time()
RunStart(i) ==
  /\ threads[i].pc = "start"
  /\ Step(i, [threads[i] EXCEPT
                !.elapsed = 0,
                !.pc = IF threads[i].pattern = "blink"
                         THEN "blink_while" ELSE "solid_on"])
  /\ UNCHANGED led

SolidOn(i) ==
  /\ threads[i].pc = "solid_on"
  /\ output(HIGH)
  /\ Step(i, [threads[i] EXCEPT !.pc = "solid_while"])

SolidWhile(i) ==
  /\ threads[i].pc = "solid_while"
  /\ IF in_alert_window(threads[i]) /\ ~flag
       THEN Step(i, [threads[i] EXCEPT !.pc = "solid_sleep",
                                       !.timer = SolidPoll])
       ELSE Step(i, [threads[i] EXCEPT !.pc = "final_off"])
  /\ UNCHANGED led

SolidWake(i) ==
  /\ threads[i].pc = "solid_sleep"
  /\ threads[i].timer = 0
  /\ Step(i, [threads[i] EXCEPT !.pc = "solid_while"])
  /\ UNCHANGED led

BlinkWhile(i) ==
  /\ threads[i].pc = "blink_while"
  /\ IF in_alert_window(threads[i]) /\ ~flag
       THEN Step(i, [threads[i] EXCEPT !.pc = "blink_for"])
       ELSE Step(i, [threads[i] EXCEPT !.pc = "final_off"])
  /\ UNCHANGED led

BlinkFor(i) ==
  /\ threads[i].pc = "blink_for"
  /\ IF flag
       THEN Step(i, [threads[i] EXCEPT !.pc = "blink_while"])
       ELSE Step(i, [threads[i] EXCEPT !.pc = "blink_on"])
  /\ UNCHANGED led

BlinkOn(i) ==
  /\ threads[i].pc = "blink_on"
  /\ output(HIGH)
  /\ Step(i, [threads[i] EXCEPT !.pc = "blink_on_sleep",
                                !.timer = BlinkInterval,
                                !.flagged = flag])

BlinkOff(i) ==
  /\ threads[i].pc = "blink_on_sleep"
  /\ threads[i].timer = 0
  /\ output(LOW)
  /\ Step(i, [threads[i] EXCEPT !.pc = "blink_off_sleep",
                                !.timer = BlinkInterval,
                                !.cycles = @ + 1,
                                !.flagged = flag])

BlinkWake(i) ==
  /\ threads[i].pc = "blink_off_sleep"
  /\ threads[i].timer = 0
  /\ Step(i, [threads[i] EXCEPT !.pc = "blink_while",
                                !.flagged = FALSE])
  /\ UNCHANGED led

FinalOff_missing(i) ==
  /\ threads[i].pc = "final_off"
  /\ Step(i, Ended)
  /\ UNCHANGED led

FinalOff(i) ==
  /\ threads[i].pc = "final_off"
  /\ output(LOW)
  /\ Step(i, Ended)

(* --------------- led_controller.py __main__ (test client) ------------- *)
ClientAlert ==
  /\ pc = "client"
  /\ Len(threads) < MaxAlerts
  /\ \E d \in Durations, p \in Patterns :
        arg' = [duration |-> d, pattern |-> p]
  /\ Call("alert_set", "client")
  /\ UNCHANGED <<prog, detVars, clockVars, timer, ledVars>>

ClientStop ==
  /\ pc = "client"
  /\ Call("stop_set", "client")
  /\ UNCHANGED <<prog, detVars, clockVars, arg, timer, ledVars>>

ClientCleanup ==
  /\ pc = "client"
  /\ pc' = "stop_set"
  /\ ret' = <<"cleanup_join", "client_done">>
  /\ UNCHANGED <<prog, detVars, clockVars, arg, timer, ledVars>>

(* ------------------------ VehicleDetector.run ------------------------- *)
Main(p) ==
  /\ prog = "detector"
  /\ pc = p

\* start_camera() is called before the try block: a RuntimeError here
\* leaves run() without passing through the finally clause.
StartCamera ==
  /\ Main("start_camera")
  /\ \E opened \in BOOLEAN :
       IF opened
         THEN /\ camera' = "open"
              /\ pc' = "warmup"
              /\ timer' = WarmUp
              /\ UNCHANGED exc
         ELSE /\ camera' = "unopened"
              /\ pc' = "run_raised"
              /\ exc' = "error"
              /\ UNCHANGED timer
  /\ UNCHANGED <<prog, config_file, config, exceeded, delayed,
                 cameraReleases, ret, arg, frame, contours,
                 detection_log, acceptGaps, interrupted, clockVars, ledVars>>

WarmedUp ==
  /\ Main("warmup")
  /\ timer = 0
  /\ pc' = "read"
  /\ UNCHANGED <<prog, detVars, clockVars, ret, arg, timer, ledVars>>

\* ret, frame = self.camera.read(); a failed read continues the loop.
Read ==
  /\ Main("read")
  /\ \E ok \in BOOLEAN, f \in Frames :
       IF ok
         THEN /\ frame' = f
              /\ pc' = "detect"
              /\ exceeded' = (exceeded \/ above_threshold(f))
         ELSE /\ frame' = NoFrame
              /\ pc' = "read"
              /\ UNCHANGED exceeded
  /\ delayed' = FALSE
  /\ UNCHANGED <<prog, config_file, config, camera, cameraReleases, ret,
                 arg, timer,
                 contours, detection_log, acceptGaps, exc, interrupted,
                 clockVars, ledVars>>

\* detect_motion(frame): cv2.cvtColor raises on a frame that is no image.
Detect ==
  /\ Main("detect")
  /\ IF ~frame.valid
       THEN /\ exc' = "error"
            /\ pc' = "finally"
            /\ UNCHANGED contours
       ELSE /\ contours' = significant_contours(frame)
            /\ pc' = IF Len(significant_contours(frame)) > 0
                       THEN "handle" ELSE "sleep"
            /\ UNCHANGED exc
  /\ UNCHANGED <<prog, config_file, config, exceeded, delayed,
                 camera, cameraReleases, ret, arg, timer,
                 frame, detection_log, acceptGaps, interrupted, clockVars,
                 ledVars>>

\* handle_detection up to the call of led.alert().
HandleDetection ==
  /\ Main("handle")
  /\ IF cooldown_active
       THEN /\ pc' = "sleep"
            /\ UNCHANGED <<ret, arg, since_detection, sinceAccept,
                           acceptGaps>>
       ELSE /\ Len(threads) < MaxAlerts
            /\ since_detection' = 0
            /\ sinceAccept' = 0
            /\ acceptGaps' = Append(acceptGaps, sinceAccept)
            /\ arg' = [duration |-> config.alert_duration,
                       pattern |-> "solid"]
            /\ Call("alert_set", "log")
  /\ UNCHANGED <<prog, config_file, config, exceeded, delayed,
                 camera, cameraReleases, timer, frame,
                 contours, detection_log, exc, interrupted, ledVars>>

LogDetection ==
  /\ Main("log")
  /\ detection_log' = Append(detection_log,
                             [accepted |-> Len(acceptGaps),
                              contour_count |-> Len(contours)])
  /\ pc' = IF config.save_detections THEN "save" ELSE "sleep"
  /\ UNCHANGED <<prog, config_file, config, exceeded, delayed,
                 camera, cameraReleases, ret, arg, timer,
                 frame, contours, acceptGaps, exc, interrupted, clockVars,
                 ledVars>>

\* _save_detection: mkdir / imwrite may raise.
SaveDetection ==
  /\ Main("save")
  /\ \E ok \in BOOLEAN :
       IF ok
         THEN pc' = "sleep" /\ UNCHANGED exc
         ELSE pc' = "finally" /\ exc' = "error"
  /\ UNCHANGED <<prog, config_file, config, exceeded, delayed,
                 camera, cameraReleases, ret, arg, timer,
                 frame, contours, detection_log, acceptGaps, interrupted,
                 clockVars, ledVars>>

Sleep ==
  /\ Main("sleep")
  /\ timer' = LoopDelay
  /\ pc' = "sleeping"
  /\ frame' = NoFrame
  /\ contours' = <<>>
  /\ UNCHANGED <<prog, config_file, config, exceeded, delayed,
                 camera, cameraReleases, ret, arg,
                 detection_log, acceptGaps, exc, interrupted, clockVars,
                 ledVars>>

Slept ==
  /\ Main("sleeping")
  /\ timer = 0
  /\ pc' = "read"
  /\ delayed' = TRUE
  /\ UNCHANGED <<prog, config_file, config, camera, cameraReleases, frame,
                 contours, exceeded, detection_log, acceptGaps, exc,
                 interrupted, clockVars, ret, arg, timer, ledVars>>

LoopPcs == {"read", "detect", "handle", "log", "save", "sleep", "sleeping"}

InTry == pc \in LoopPcs \/ (ret # <<>> /\ ret[Len(ret)] = "log")

\* Ctrl-C inside the try block: except KeyboardInterrupt, then finally.
Interrupt ==
  /\ prog = "detector"
  /\ ~interrupted
  /\ InTry
  /\ interrupted' = TRUE
  /\ exc' = "KeyboardInterrupt"
  /\ pc' = "finally"
  /\ ret' = <<>>
  /\ arg' = NoArg
  /\ UNCHANGED <<prog, config_file, config, exceeded, delayed,
                 camera, cameraReleases, timer, frame,
                 contours, detection_log, acceptGaps, clockVars, ledVars>>

\* Ctrl-C during start_camera(): outside the try block, not handled.
InterruptStart ==
  /\ prog = "detector"
  /\ ~interrupted
  /\ pc \in {"start_camera", "warmup"}
  /\ interrupted' = TRUE
  /\ exc' = "KeyboardInterrupt"
  /\ pc' = "run_raised"
  /\ UNCHANGED <<prog, config_file, config, exceeded, delayed,
                 camera, cameraReleases, ret, arg, timer,
                 frame, contours, detection_log, acceptGaps, clockVars,
                 ledVars>>

\* finally: self.stop_camera(), then self.led.cleanup().
StopCamera ==
  /\ Main("finally")
  /\ IF camera # "none"
       THEN camera' = "released" /\ cameraReleases' = cameraReleases + 1
       ELSE UNCHANGED <<camera, cameraReleases>>
  /\ pc' = "stop_set"
  /\ ret' = <<"cleanup_join", "run_end">>
  /\ frame' = NoFrame
  /\ contours' = <<>>
  /\ UNCHANGED <<prog, config_file, config, exceeded, delayed,
                 arg, timer, detection_log, acceptGaps, exc,
                 interrupted, clockVars, ledVars>>

RunEnd ==
  /\ Main("run_end")
  /\ pc' = IF exc = "error" THEN "run_raised" ELSE "run_returned"
  /\ UNCHANGED <<prog, detVars, clockVars, ret, arg, timer, ledVars>>

(* ---------------------- VehicleDetector.__init__ ---------------------- *)
\* VehicleDetector(config_path): nothing is constructed yet
StartupInit ==
  /\ prog = "startup"
  /\ pc = "load_config"
  /\ config_file \in ConfigFiles
  /\ config = <<>>
  /\ since_detection = 0
  /\ ret = <<>>
  /\ arg = NoArg
  /\ timer = 0
  /\ VehicleDetectorInit
  /\ LEDControllerInit

Startup(p) ==
  /\ prog = "startup"
  /\ pc = p

\* self.config[key]: KeyError when the loaded mapping lacks the key
Lookup(keys, next) ==
  /\ IF keys \subseteq DOMAIN config
       THEN pc' = next /\ UNCHANGED exc
       ELSE pc' = "startup_raised" /\ exc' = "error"
  /\ UNCHANGED <<prog, config_file, config, camera, cameraReleases, frame,
                 contours, exceeded, delayed, detection_log, acceptGaps,
                 interrupted, clockVars, ret, arg, timer, ledVars>>

\* _load_config: json.load(f) when the file exists, the defaults otherwise
LoadConfig ==
  /\ Startup("load_config")
  /\ CASE config_file.state = "missing" ->
             /\ config' = default_config
             /\ pc' = "init_led"
             /\ UNCHANGED exc
         [] config_file.state = "malformed" ->
             /\ pc' = "startup_raised"
             /\ exc' = "error"
             /\ UNCHANGED config
         [] OTHER ->
             /\ config' = config_file.options
             /\ pc' = "init_led"
             /\ UNCHANGED exc
  /\ UNCHANGED <<prog, config_file, camera, cameraReleases, frame,
                 contours, exceeded, delayed, detection_log, acceptGaps,
                 interrupted, clockVars, ret, arg, timer, ledVars>>

\* LEDController(self.config["led_pin"])
InitController ==
  /\ Startup("init_led")
  /\ Lookup({"led_pin"}, "init_subtractor")

\* createBackgroundSubtractorMOG2(history=..., varThreshold=...)
InitSubtractor ==
  /\ Startup("init_subtractor")
  /\ Lookup({"bg_history", "var_threshold"}, "constructed")

StartupNext == LoadConfig \/ InitController \/ InitSubtractor

StartupSpec == StartupInit /\ [][StartupNext]_vars

(* --------------------------- specification ---------------------------- *)
ControllerCall ==
  \/ AlertSet \/ AlertJoin \/ AlertJoined \/ AlertClear \/ AlertStart
  \/ StopSet \/ StopOff \/ CleanupJoin \/ CleanupJoined \/ GpioCleanup

SolidThread(i) ==
  \/ RunStart(i) \/ SolidOn(i) \/ SolidWhile(i) \/ SolidWake(i)
  \/ FinalOff(i)

BlinkThread(i) ==
  \/ BlinkWhile(i) \/ BlinkFor(i) \/ BlinkOn(i) \/ BlinkOff(i)
  \/ BlinkWake(i)

\* The detector: handle_detection always calls alert() with the default
\* pattern "solid", so no alert thread of this program takes a blink step.
Next ==
  \/ Tick
  \/ StartCamera \/ WarmedUp \/ Read \/ Detect \/ HandleDetection
  \/ LogDetection \/ SaveDetection \/ Sleep \/ Slept
  \/ Interrupt \/ InterruptStart \/ StopCamera \/ RunEnd
  \/ ControllerCall
  \/ \E i \in ThreadIds : SolidThread(i)

Spec == Init /\ [][Next]_vars

\* The controller under its test client.
LedNext ==
  \/ Tick
  \/ ClientAlert \/ ClientStop \/ ClientCleanup
  \/ ControllerCall
  \/ \E i \in ThreadIds : SolidThread(i) \/ BlinkThread(i)

LedSpec == LedInit /\ [][LedNext]_vars

\* The same client when nothing is ever late: time passes only while every
\* live thread sleeps and the caller is idle or waits in a join.
Sleeping(t) ==
  /\ t.pc \in {"solid_sleep", "blink_on_sleep", "blink_off_sleep"}
  /\ t.timer > 0

Quiescent ==
  /\ \A i \in Alive : Sleeping(threads[i])
  /\ \/ pc \in {"client", "client_done"}
     \/ Joining /\ ~join_returns(alert_thread)

PromptTick == Quiescent /\ Tick

LedPromptNext ==
  \/ PromptTick
  \/ ClientAlert \/ ClientStop \/ ClientCleanup
  \/ ControllerCall
  \/ \E i \in ThreadIds : SolidThread(i) \/ BlinkThread(i)

LedPromptSpec == LedInit /\ [][LedPromptNext]_vars

\* One alert() and no call after it, nothing late.
ClientScenario ==
  /\ pc = "client"
  /\ threads = <<>>
  /\ \E d \in ScenarioDurations, p \in Patterns :
        arg' = [duration |-> d, pattern |-> p]
  /\ Call("alert_set", "client_done")
  /\ UNCHANGED <<prog, detVars, clockVars, timer, ledVars>>

ScenarioNext ==
  \/ PromptTick
  \/ ClientScenario
  \/ AlertSet \/ AlertJoin \/ AlertClear \/ AlertStart
  \/ \E i \in ThreadIds : SolidThread(i) \/ BlinkThread(i)

ScenarioSpec == LedInit /\ [][ScenarioNext]_vars

(* ============================== claims ================================ *)

\* C1: any two accepted detections have acceptance times that differ by
\* at least detection_cooldown (every accepted detection after the first
\* comes at least detection_cooldown after the one before it).
C1_AcceptedApart ==
  \A k \in 2..Len(acceptGaps) : acceptGaps[k] >= config.detection_cooldown

C1_Witness ==
  /\ Len(acceptGaps) >= 2
  /\ config.detection_cooldown > 0
  /\ pc = "log"

\* C2: the gate accepts a detected frame if and only if no detection was
\* accepted before or the last accepted one is at least detection_cooldown
\* old; in particular the first detected frame is always accepted.
C2_GateAcceptsIff ==
  [][(Main("handle") /\ pc' \in {"alert_set", "sleep"})
       => ((pc' = "alert_set")
             <=> (sinceAccept = Never
                    \/ sinceAccept >= config.detection_cooldown))]_vars

\* C3: at most one alert thread is able to write the indicator at any time:
\* every alert thread that is still alive is the one alert() started last.
C3_OneAlertThread ==
  \A i \in ThreadIds : is_alive(i) => i = alert_thread

WritePcs == {"solid_on", "blink_on", "blink_on_sleep", "final_off"}

Writes(i) ==
  /\ threads[i].pc \in WritePcs
  /\ threads'[i].pc # threads[i].pc

\* C4: once a later alert() has started its thread, no write to the
\* indicator comes from an earlier activation.
C4_NoWriteFromPreempted ==
  [][\A i \in ThreadIds : Writes(i) => i = alert_thread]_vars

\* stop_alert() has returned to the test client and no alert() was called
\* since: alert() clears the flag before it returns.
StopReturned ==
  /\ prog = "led_test"
  /\ flag
  /\ pc \in {"client", "cleanup_join", "cleanup_joining", "cleanup_gpio",
             "client_done"}

\* C5: when stop_alert() has returned the indicator is off and stays off
\* until the next alert() call.
C5_OffAfterStop == StopReturned => led = LOW

\* C6: the indicator is never on at a time later than the deadline
\* (start + duration) of the current activation.
C6_OffAtDeadline ==
  \A i \in ThreadIds :
    (i = alert_thread /\ Running(threads[i]) /\ led = HIGH)
      => threads[i].elapsed <= threads[i].duration

\* C7: a solid alert with no later alert()/stop_alert()/cleanup() keeps the
\* indicator on from the moment it switched it on until its deadline.
C7_SolidStaysOn ==
  \A i \in ThreadIds :
    (/\ i = alert_thread
     /\ threads[i].pattern = "solid"
     /\ threads[i].pc \in {"solid_while", "solid_sleep"}
     /\ pc = "client"
     /\ ~flag)
      => led = HIGH

Idle == Alive = {}

StopAlertStep ==
  /\ pc \in {"stop_set", "stop_off"}
  /\ pc' # pc

\* C8: stop_alert() on an idle controller (no alert thread alive) finds and
\* leaves the indicator off and touches no thread; called again right
\* after, it changes nothing at all in the controller.
C8_StopWhenIdle ==
  [][(StopAlertStep /\ Idle)
       => /\ led = LOW
          /\ led' = LOW
          /\ flag'
          /\ UNCHANGED <<threads, alert_thread, gpioReleases>>
          /\ flag => UNCHANGED ledVars]_vars

\* stop_alert() is called again on an idle controller: the flag is still
\* set from the call before, and an alert has run and ended.
C8_Witness ==
  /\ prog = "led_test"
  /\ pc = "stop_set"
  /\ flag
  /\ threads # <<>>
  /\ Idle
  /\ led = LOW

AlertPcs ==
  {"alert_set", "alert_join", "alert_joining", "alert_clear", "alert_start"}

\* the caller is inside alert() and cannot take its next step
AlertBlocked ==
  /\ pc \in AlertPcs
  /\ ~ENABLED (AlertSet \/ AlertJoin \/ AlertJoined \/ AlertClear
                 \/ AlertStart)

C10_ReleasedOnce ==
  pc \in {"run_returned", "run_raised"}
    => /\ cameraReleases = 1
       /\ gpioReleases = 1
       /\ led = LOW

CleanupReturned == pc \in {"client_done", "run_end", "run_returned", "run_raised"}

\* C11: when cleanup() has returned the indicator is off, no alert thread is
\* alive and the GPIO driver has been released; and once the driver has
\* been released no alert thread writes the indicator.
C11_CleanupSafe ==
  [][/\ (CleanupReturned' /\ gpioReleases' > 0)
          => (led' = LOW /\ Alive' = {} /\ gpioReleases' = 1)
     /\ gpioReleases > 0 => \A i \in ThreadIds : ~Writes(i)]_vars

\* C12: as long as no frame read had a region of area greater than
\* min_contour_area, detect_motion has returned detected = false on every
\* frame and no detection has been accepted: handle_detection is not
\* entered, led.alert() has not been called and detection_log is empty.
C12_NoDetectionBelowThreshold ==
  (prog = "detector" /\ ~exceeded)
    => /\ pc \notin {"handle", "log", "save"} \cup AlertPcs
       /\ contours = <<>>
       /\ acceptGaps = <<>>
       /\ threads = <<>>
       /\ detection_log = <<>>

\* a frame whose region lies exactly on the threshold has been processed
C12_Witness ==
  /\ prog = "detector"
  /\ ~exceeded
  /\ pc = "sleep"
  /\ frame.valid
  /\ Len(frame.areas) > 0
  /\ frame.areas[1] = config.min_contour_area

\* the main thread takes the step of position p (no Ctrl-C arrives)
MainStep(p) ==
  /\ Main(p)
  /\ pc' # pc
  /\ interrupted' = interrupted

\* C13: detect_motion on a frame that is no image (malformed, empty, or
\* empty after the region-of-interest crop) returns detected = false with
\* no regions and raises nothing: the loop goes on to its delay.
C13_MalformedFrameSkipped ==
  [][(MainStep("detect") /\ ~frame.valid)
       => (pc' = "sleep" /\ exc' = "none" /\ contours' = <<>>)]_vars

\* C14: whether or not _save_detection fails, the loop goes on after it to
\* its delay and the next frame; nothing is raised out of the loop.
C14_SaveFailureSkipped ==
  [][MainStep("save") => (pc' = "sleep" /\ exc' = "none")]_vars

\* the options a configuration file gives a value to
Specified == DOMAIN config_file.options

\* C15: whatever the configuration file (missing, malformed, or giving only
\* some options), construction is not aborted and the configuration it
\* uses has a value for every option, the documented default for each
\* option the file does not specify.
C15_ConfigLoadingTotal ==
  (prog = "startup" /\ pc # "load_config")
    => /\ pc # "startup_raised"
       /\ \A o \in Options :
            /\ o \in DOMAIN config
            /\ o \notin Specified => config[o] = default_config[o]

\* an alert(duration=1.0, pattern='blink') that is running
OneSecondBlink(t) ==
  /\ t.pattern = "blink"
  /\ t.duration = 10
  /\ Running(t)

C17_DelayBetweenReads ==
  [][(MainStep("read") /\ pc' = "detect") => delayed]_vars

\* the polling sub-interval of an alert thread
SubInterval(t) == IF t.pattern = "blink" THEN BlinkInterval ELSE SolidPoll

\* thread i writes the indicator other than by its final off, or starts a
\* sleep
Acts(i) ==
  /\ threads'[i].pc # threads[i].pc
  /\ \/ threads[i].pc \in {"solid_on", "blink_on", "blink_on_sleep"}
     \/ threads'[i].pc \in {"solid_sleep", "blink_on_sleep",
                             "blink_off_sleep"}

\* More than one sub-interval has passed since the flag was set: more ticks
\* than the sub-interval, or exactly as many at the end of a sleep that
\* began when the flag was already set.
ObservationOverdue(t) ==
  /\ flag
  /\ \/ sinceFlag > SubInterval(t)
     \/ sinceFlag = SubInterval(t) /\ t.flagged

\* C18: with nothing late, once the flag is set the alert thread makes no
\* indicator write other than its final off, and starts no sleep, more
\* than one sub-interval (0.1 s solid, 0.2 s blink) after the flag was set.
C18_ObservedWithinSubInterval ==
  [][\A i \in ThreadIds :
       Acts(i) => ~ObservationOverdue(threads[i])]_vars

\* the log only grows, at its end
AppendOnly ==
  /\ Len(detection_log') >= Len(detection_log)
  /\ SubSeq(detection_log', 1, Len(detection_log)) = detection_log

\* entries are in the order in which their detections were accepted
InAcceptanceOrder(log) ==
  \A j, k \in 1..Len(log) : j < k => log[j].accepted < log[k].accepted

\* In the detector every alert() is the one of an accepted detection, and
\* it returns in the step that starts its thread.
AlertsReturned == Len(threads)

\* C19: in every state, but for the moment between the return
\* of led.alert() and the append statement after it, the detection log has
\* one entry for each accepted detection whose led.alert() has returned;
\* it is append-only and in acceptance order.
C19_LogMirrorsAccepted ==
  [][prog = "detector"
       => /\ Len(detection_log') = AlertsReturned' \/ pc' = "log"
          /\ AppendOnly
          /\ InAcceptanceOrder(detection_log')]_vars

\* thread i leaves its pattern loop before its deadline
EndsEarly(i) ==
  /\ threads[i].pc \in {"solid_while", "blink_while"}
  /\ threads'[i].pc = "final_off"
  /\ in_alert_window(threads[i])

\* C20: alert() starts its thread with the flag cleared, whatever set the
\* flag before (stop_alert(), or the set of alert() itself when it
\* preempts); the flag is set again only by the first statement of a
\* later alert(), stop_alert() or cleanup(); and the thread of the current
\* activation leaves its pattern before its deadline only when the flag
\* is set.  So, with no later call, the activation runs for its full
\* duration.
C20_FlagDoesNotLeak ==
  [][/\ Len(threads') > Len(threads) => (~flag /\ ~flag')
     /\ (~flag /\ flag') => pc \in {"alert_set", "stop_set"}
     /\ \A i \in ThreadIds :
          (i = alert_thread /\ EndsEarly(i)) => flag]_vars

\* A second alert(), called after the flag had been set again (by
\* stop_alert(), or by its own set when it preempts), has run to its
\* deadline with no call after it.
C20_Witness ==
  /\ prog = "led_test"
  /\ pc = "client"
  /\ ~flag
  /\ Len(threads) = 2
  /\ alert_thread = 2
  /\ Running(threads[2])
  /\ threads[2].pc # "final_off"
  /\ ~in_alert_window(threads[2])

====
